---- MODULE Spec2Model ----
(***************************************************************************)
(* The lexical scanner of the Lox interpreter (src/src/lox/scanner.rs),    *)
(* driven through Lox::run (src/src/lox.rs).  One step of the model is one *)
(* iteration of the `for (i, c) in self.source.chars().enumerate()` loop   *)
(* of Scanner::scan_tokens; the last step pushes the Eof token.            *)
(*                                                                         *)
(* A character is a one-character string, a String is a sequence of        *)
(* characters, Option<String> is a sequence of length 0 (None) or 1        *)
(* (Some(s)).                                                              *)
(***************************************************************************)
EXTENDS Integers, Sequences, FiniteSets, TLC

VARIABLES
    source,           \* Scanner.source
    tokens,           \* Scanner.tokens
    state,            \* let mut state
    buffer_vec,       \* let mut buffer_vec
    buffer_type,      \* let mut buffer_type
    line_count,       \* let mut line_count
    since_last_line,  \* let mut since_last_line
    i,                \* index of the character the loop reads next (0-based)
    pc,               \* "scan": in the loop; "done": scan_tokens returned; "exit": process::exit
    exit_code,        \* status handed to process::exit, -1 while the process runs
    errors,           \* calls of report_error made so far: <<line, offset, message>>
    args,             \* main: env::args().collect(), args[1] here is args[0] there
    fs,               \* what fs::read_to_string gives for each path
    mode,             \* which arm of main's match was taken
    opened            \* the path main handed to Lox::run_file, if any

\* the state of the entry point, which scan_tokens never touches
mainvars == <<args, fs, mode, opened>>

vars == <<source, tokens, state, buffer_vec, buffer_type, line_count,
          since_last_line, i, pc, exit_code, errors, args, fs, mode, opened>>

-----------------------------------------------------------------------------
(* Bounds of the model *)

\* longest code, in characters, drawn from Alphabet
MaxLen == 4

\* the characters the bounded codes are written in: one digit, the dot, one
\* other single-character punctuation, the five operator start characters,
\* a blank, a newline, the quote and a letter
Alphabet == {"1", ".", ";", "=", "!", ">", "<", "/", " ", "\n", "\"", "a"}

\* longer codes of the specification's scenarios
Scenarios ==
    { <<"v", "a", "r", " ", "x", " ", "=", " ", "1", ".", "5", ";">>,
      <<"1", ".", "5", ")", ".">>,
      <<"1", ".", ".", "2">>,
      <<"\"", "a", "\n", "b", "\"">>,
      <<"a", "\n", "b">>,
      <<"o", "r", " ", "O", "r", ";">>,
      <<" ", "\t", "\n", "\t">> }
    \cup { w \o <<t>> : w \in { <<"o", "r">>, <<"O", "r">>, <<"o", "r", "r">>,
                                <<"i", "f">> },
                       t \in {" ", ";", "=", "\""} }

Codes == (UNION { [1..n -> Alphabet] : n \in 0..MaxLen }) \cup Scenarios

-----------------------------------------------------------------------------
(* Characters *)

Digits == {"0", "1", "2", "3", "4", "5", "6", "7", "8", "9"}

\* char::is_numeric, on the characters of the model
is_numeric(c) == c \in Digits

\* a scanner that takes only blanks and newlines for whitespace
is_whitespace_without_tab(ch) == ch \in {" ", "\n"}

\* char::is_whitespace, on the characters of the model
is_whitespace(c) == c \in {" ", "\n", "\t", "\r"}

-----------------------------------------------------------------------------
(* Tokens *)

None == <<>>
Some(s) == <<s>>

\* Token::new
Token(ttype, literal, line, offset) ==
    [ttype |-> ttype, literal |-> literal, line |-> line, offset |-> offset]

single_char ==
    ("(" :> "LeftParen") @@ (")" :> "RightParen") @@ ("{" :> "LeftBrace") @@
    ("}" :> "RightBrace") @@ ("," :> "Comma") @@ ("." :> "Dot") @@
    ("-" :> "Minus") @@ ("+" :> "Plus") @@ (";" :> "Semicolon") @@
    ("*" :> "Star")

\* a table in which the entry of '<' carries the type of the two-character
\* token instead of the one-character one
first_two_char_with_combined_type ==
    ("!" :> "Bang") @@ ("=" :> "Equal") @@ (">" :> "Greater") @@
    ("<" :> "LessEqual") @@ ("/" :> "Slash")

first_two_char ==
    ("!" :> "Bang") @@ ("=" :> "Equal") @@ (">" :> "Greater") @@
    ("<" :> "Less") @@ ("/" :> "Slash")

keywords ==
    (<<"a", "n", "d">> :> "And") @@
    (<<"c", "l", "a", "s", "s">> :> "Class") @@
    (<<"e", "l", "s", "e">> :> "Else") @@
    (<<"f", "a", "l", "s", "e">> :> "False") @@
    (<<"f", "u", "n">> :> "Fun") @@
    (<<"f", "o", "r">> :> "For") @@
    (<<"i", "f">> :> "If") @@
    (<<"n", "i", "l">> :> "Nil") @@
    (<<"o", "r">> :> "Or") @@
    (<<"p", "r", "i", "n", "t">> :> "Print") @@
    (<<"r", "e", "t", "u", "r", "n">> :> "Return") @@
    (<<"s", "u", "p", "e", "r">> :> "Super") @@
    (<<"t", "h", "i", "s">> :> "This") @@
    (<<"t", "r", "u", "e">> :> "True") @@
    (<<"v", "a", "r">> :> "Var") @@
    (<<"w", "h", "i", "l", "e">> :> "While")

\* a scanner that keeps the text of a keyword as its literal
WordToken_with_literal(word, line, offset) ==
    IF word \in DOMAIN keywords
    THEN Token(keywords[word], Some(word), line, offset)
    ELSE Token("Identifier", Some(word), line, offset)

\* a scanner that looks `Or` up as it does `or`
WordToken_ignoring_case(word, line, offset) ==
    IF word \in DOMAIN keywords
    THEN Token(keywords[word], None, line, offset)
    ELSE IF word = <<"O", "r">>
    THEN Token("Or", None, line, offset)
    ELSE Token("Identifier", Some(word), line, offset)

\* the token a flushed identifier buffer becomes: keywords.get(&word)
WordToken(word, line, offset) ==
    IF word \in DOMAIN keywords
    THEN Token(keywords[word], None, line, offset)
    ELSE Token("Identifier", Some(word), line, offset)

\* the Number token a flushed number buffer becomes
NumberToken(line, offset) ==
    Token("Number", Some(buffer_vec), line, offset)

-----------------------------------------------------------------------------
(* Lox::run and Scanner::new *)

\* a run that scans the code as it is
Run_without_newline(code) == code

\* Lox::run: the scanned source is the code followed by a newline
Run(code) == code \o <<"\n">>

Init ==
    /\ \E code \in Codes : source = Run(code)
    /\ tokens = <<>>
    /\ state = "Next"
    /\ buffer_vec = <<>>
    /\ buffer_type = "Print"
    /\ line_count = 1
    /\ since_last_line = 0
    /\ i = 0
    /\ pc = "scan"
    /\ exit_code = -1
    /\ errors = <<>>
    /\ args = <<>>
    /\ fs = <<>>
    /\ mode = "run"
    /\ opened = None

-----------------------------------------------------------------------------
(* Pieces shared by the arms of the match *)

\* the loop is at character i of the source and the match is on state s
AtState(s) == pc = "scan" /\ i < Len(source) /\ state = s

\* the character the loop reads
c == source[i + 1]

\* a scanner that starts a new line without counting it
CountLine_without_increment ==
    IF c = "\n"
    THEN since_last_line' = i + 1 /\ UNCHANGED line_count
    ELSE UNCHANGED <<line_count, since_last_line>>

\* a scanner that puts the start of the new line one character too far
CountLine_past_line_start ==
    IF c = "\n"
    THEN line_count' = line_count + 1 /\ since_last_line' = i + 2
    ELSE UNCHANGED <<line_count, since_last_line>>

\* if c == '\n' { line_count += 1; since_last_line = i + 1; }
CountLine ==
    IF c = "\n"
    THEN line_count' = line_count + 1 /\ since_last_line' = i + 1
    ELSE UNCHANGED <<line_count, since_last_line>>

\* the loop goes on to the next character
Advance == i' = i + 1 /\ UNCHANGED <<source, pc, exit_code, errors, mainvars>>

\* buffer_vec.clear(); buffer_vec.push(c)
StartBuffer == buffer_vec' = <<c>>

\* process::exit(code) in the middle of the loop: nothing else changes
Exit(code) ==
    /\ pc' = "exit"
    /\ exit_code' = code
    /\ UNCHANGED <<source, tokens, state, buffer_vec, buffer_type, line_count,
                   since_last_line, i, mainvars>>

-----------------------------------------------------------------------------
(* The arms of `match state`, one action each *)

\* ScannerState::Comment
StepComment ==
    /\ AtState("Comment")
    /\ IF c = "\n"
       THEN /\ line_count' = line_count + 1
            /\ since_last_line' = i + 1
            /\ state' = "Next"
       ELSE UNCHANGED <<line_count, since_last_line, state>>
    /\ UNCHANGED <<tokens, buffer_vec, buffer_type>>
    /\ Advance

\* ScannerState::SoloDot
StepSoloDot ==
    /\ AtState("SoloDot")
    /\ IF is_numeric(c)
       THEN /\ buffer_vec' = <<".", c>>
            /\ state' = "NumberWithDot"
            /\ UNCHANGED <<tokens, buffer_type, line_count, since_last_line>>
       ELSE LET dot == Token("Dot", None, line_count, i - since_last_line - 1) IN
            IF c = "."
            THEN /\ tokens' = Append(tokens, dot)
                 /\ state' = "SoloDot"
                 /\ UNCHANGED <<buffer_vec, buffer_type, line_count, since_last_line>>
            ELSE IF c \in DOMAIN single_char
            THEN /\ tokens' = tokens \o
                      <<dot, Token(single_char[c], None, line_count, i - since_last_line)>>
                 /\ UNCHANGED <<state, buffer_vec, buffer_type, line_count, since_last_line>>
            ELSE IF c \in DOMAIN first_two_char
            THEN /\ tokens' = Append(tokens, dot)
                 /\ state' = "MaybeTwo"
                 /\ buffer_type' = first_two_char[c]
                 /\ UNCHANGED <<buffer_vec, line_count, since_last_line>>
            ELSE IF is_whitespace(c)
            THEN /\ tokens' = Append(tokens, dot)
                 /\ CountLine
                 /\ state' = "Next"
                 /\ UNCHANGED <<buffer_vec, buffer_type>>
            ELSE IF c = "\""
            THEN /\ tokens' = Append(tokens, dot)
                 /\ state' = "InString"
                 /\ StartBuffer
                 /\ UNCHANGED <<buffer_type, line_count, since_last_line>>
            ELSE /\ tokens' = Append(tokens, dot)
                 /\ state' = "IdentifierOrKeyword"
                 /\ StartBuffer
                 /\ UNCHANGED <<buffer_type, line_count, since_last_line>>
    /\ Advance

\* a scanner whose NumberWithDot takes a second dot for punctuation
UnexpectedDot_never == c = "." /\ state = "SoloDot"

\* ScannerState::NumberWithDot: `if c == '.'`, the fatal branch
UnexpectedDot == c = "."

\* ScannerState::NumberWithDot
StepNumberWithDot ==
    /\ AtState("NumberWithDot")
    /\ IF UnexpectedDot
       THEN /\ errors' = Append(errors,
                   <<line_count, i - since_last_line, "Did not expect '.'">>)
            /\ Exit(1)
       ELSE /\ LET number == NumberToken(line_count, i - since_last_line - 1) IN
               IF c \in DOMAIN single_char
               THEN /\ tokens' = tokens \o
                         <<number, Token(single_char[c], None, line_count, i - since_last_line)>>
                    /\ UNCHANGED <<state, buffer_vec, buffer_type, line_count, since_last_line>>
               ELSE IF c \in DOMAIN first_two_char
               THEN /\ tokens' = Append(tokens, number)
                    /\ state' = "MaybeTwo"
                    /\ buffer_type' = first_two_char[c]
                    /\ UNCHANGED <<buffer_vec, line_count, since_last_line>>
               ELSE IF is_whitespace(c)
               THEN /\ tokens' = Append(tokens, number)
                    /\ CountLine
                    /\ state' = "Next"
                    /\ UNCHANGED <<buffer_vec, buffer_type>>
               ELSE IF is_numeric(c)
               THEN /\ buffer_vec' = Append(buffer_vec, c)
                    /\ UNCHANGED <<tokens, state, buffer_type, line_count, since_last_line>>
               ELSE UNCHANGED <<tokens, state, buffer_vec, buffer_type, line_count,
                                since_last_line>>
            /\ Advance

\* ScannerState::Number
StepNumber ==
    /\ AtState("Number")
    /\ IF c = "."
       THEN /\ buffer_vec' = Append(buffer_vec, c)
            /\ state' = "NumberWithDot"
            /\ UNCHANGED <<tokens, buffer_type, line_count, since_last_line>>
       ELSE LET number == NumberToken(line_count, i - since_last_line - 1) IN
            IF c \in DOMAIN single_char
            THEN /\ tokens' = tokens \o
                      <<number, Token(single_char[c], None, line_count, i - since_last_line)>>
                 /\ UNCHANGED <<state, buffer_vec, buffer_type, line_count, since_last_line>>
            ELSE IF c \in DOMAIN first_two_char
            THEN /\ tokens' = Append(tokens, number)
                 /\ state' = "MaybeTwo"
                 /\ buffer_type' = first_two_char[c]
                 /\ UNCHANGED <<buffer_vec, line_count, since_last_line>>
            ELSE IF is_whitespace(c)
            THEN /\ tokens' = Append(tokens, number)
                 /\ CountLine
                 /\ state' = "Next"
                 /\ UNCHANGED <<buffer_vec, buffer_type>>
            ELSE /\ buffer_vec' = Append(buffer_vec, c)
                 /\ UNCHANGED <<tokens, state, buffer_type, line_count, since_last_line>>
    /\ Advance

\* a scanner whose string literals also end at the end of the line
ClosesString_at_newline == c = "\"" \/ c = "\n"

\* ScannerState::InString: `if c == '"'`, the closing quote
ClosesString == c = "\""

\* ScannerState::InString
StepInString ==
    /\ AtState("InString")
    /\ buffer_vec' = Append(buffer_vec, c)
    /\ IF ClosesString
       THEN /\ tokens' = Append(tokens,
                   Token("String", Some(buffer_vec'), line_count, i - since_last_line))
            /\ state' = "Next"
       ELSE UNCHANGED <<tokens, state>>
    /\ UNCHANGED <<buffer_type, line_count, since_last_line>>
    /\ Advance

\* ScannerState::Next
StepNext ==
    /\ AtState("Next")
    /\ IF c = "."
       THEN /\ state' = "SoloDot"
            /\ UNCHANGED <<tokens, buffer_vec, buffer_type, line_count, since_last_line>>
       ELSE IF c \in DOMAIN single_char
       THEN /\ tokens' = Append(tokens,
                   Token(single_char[c], None, line_count, i - since_last_line))
            /\ UNCHANGED <<state, buffer_vec, buffer_type, line_count, since_last_line>>
       ELSE IF c \in DOMAIN first_two_char
       THEN /\ state' = "MaybeTwo"
            /\ buffer_type' = first_two_char[c]
            /\ UNCHANGED <<tokens, buffer_vec, line_count, since_last_line>>
       ELSE IF is_whitespace(c)
       THEN /\ CountLine
            /\ UNCHANGED <<tokens, state, buffer_vec, buffer_type>>
       ELSE IF c = "\""
       THEN /\ state' = "InString"
            /\ StartBuffer
            /\ UNCHANGED <<tokens, buffer_type, line_count, since_last_line>>
       ELSE IF is_numeric(c)
       THEN /\ state' = "Number"
            /\ StartBuffer
            /\ UNCHANGED <<tokens, buffer_type, line_count, since_last_line>>
       ELSE /\ state' = "IdentifierOrKeyword"
            /\ StartBuffer
            /\ UNCHANGED <<tokens, buffer_type, line_count, since_last_line>>
    /\ Advance

\* ScannerState::MaybeTwo: the combined token of `match buffer_type`
combined ==
    ("Bang" :> "BangEqual") @@ ("Equal" :> "EqualEqual") @@
    ("Greater" :> "GreaterEqual") @@ ("Less" :> "LessEqual")

\* a scanner that takes any pending operator followed by `/` for a comment
StartsComment_any_pending == c = "/"

\* ScannerState::MaybeTwo: `else if c == '/' && buffer_type == TokenType::Slash`
StartsComment == c = "/" /\ buffer_type = "Slash"

\* ScannerState::MaybeTwo
StepMaybeTwo ==
    /\ AtState("MaybeTwo")
    /\ LET pending == Token(buffer_type, None, line_count, i - since_last_line - 1) IN
       IF c \in DOMAIN single_char
       THEN /\ tokens' = tokens \o
                 <<pending, Token(single_char[c], None, line_count, i - since_last_line)>>
            /\ state' = "Next"
            /\ UNCHANGED <<buffer_vec, buffer_type, line_count, since_last_line>>
            /\ Advance
       ELSE IF c \in DOMAIN first_two_char
       THEN IF c = "=" /\ buffer_type # "Slash"
            THEN IF buffer_type \in DOMAIN combined
                 THEN /\ tokens' = Append(tokens,
                             Token(combined[buffer_type], None, line_count,
                                   i - since_last_line))
                      /\ UNCHANGED <<state, buffer_vec, buffer_type, line_count,
                                     since_last_line>>
                      /\ Advance
                 ELSE /\ Exit(1)
                      /\ UNCHANGED errors
            ELSE IF StartsComment
            THEN /\ state' = "Comment"
                 /\ UNCHANGED <<tokens, buffer_vec, buffer_type, line_count,
                                since_last_line>>
                 /\ Advance
            ELSE /\ tokens' = Append(tokens, pending)
                 /\ buffer_type' = first_two_char[c]
                 /\ UNCHANGED <<state, buffer_vec, line_count, since_last_line>>
                 /\ Advance
       ELSE IF is_whitespace(c)
       THEN /\ tokens' = Append(tokens, pending)
            /\ CountLine
            /\ state' = "Next"
            /\ UNCHANGED <<buffer_vec, buffer_type>>
            /\ Advance
       ELSE IF c = "\""
       THEN /\ tokens' = Append(tokens, pending)
            /\ state' = "InString"
            /\ StartBuffer
            /\ UNCHANGED <<buffer_type, line_count, since_last_line>>
            /\ Advance
       ELSE IF is_numeric(c)
       THEN /\ tokens' = Append(tokens, pending)
            /\ state' = "Number"
            /\ StartBuffer
            /\ UNCHANGED <<buffer_type, line_count, since_last_line>>
            /\ Advance
       ELSE /\ tokens' = Append(tokens, pending)
            /\ state' = "IdentifierOrKeyword"
            /\ StartBuffer
            /\ UNCHANGED <<buffer_type, line_count, since_last_line>>
            /\ Advance

\* ScannerState::IdentifierOrKeyword
StepIdentifierOrKeyword ==
    /\ AtState("IdentifierOrKeyword")
    /\ LET word == WordToken(buffer_vec, line_count, i - since_last_line - 1) IN
       IF c \in DOMAIN single_char
       THEN /\ tokens' = tokens \o
                 <<word, Token(single_char[c], None, line_count, i - since_last_line)>>
            /\ state' = "Next"
            /\ UNCHANGED <<buffer_vec, buffer_type, line_count, since_last_line>>
       ELSE IF c \in DOMAIN first_two_char
       THEN /\ tokens' = Append(tokens, word)
            /\ state' = "MaybeTwo"
            /\ buffer_type' = first_two_char[c]
            /\ UNCHANGED <<buffer_vec, line_count, since_last_line>>
       ELSE IF is_whitespace(c)
       THEN /\ tokens' = Append(tokens, word)
            /\ state' = "Next"
            /\ CountLine
            /\ UNCHANGED <<buffer_vec, buffer_type>>
       ELSE IF c = "\""
       THEN /\ tokens' = Append(tokens, word)
            /\ state' = "InString"
            /\ StartBuffer
            /\ UNCHANGED <<buffer_type, line_count, since_last_line>>
       ELSE /\ buffer_vec' = Append(buffer_vec, c)
            /\ UNCHANGED <<tokens, state, buffer_type, line_count, since_last_line>>
    /\ Advance

\* a scanner that gives Eof the column of the end of input, as it does for
\* every other token
eof_token_at_column == Token("Eof", None, line_count, i - since_last_line)

\* let eof_token = Token::new(TokenType::Eof, None, line_count, 0)
eof_token == Token("Eof", None, line_count, 0)

\* the end of scan_tokens, after the loop: self.tokens.push(eof_token)
PushEof ==
    /\ pc = "scan"
    /\ i = Len(source)
    /\ tokens' = Append(tokens, eof_token)
    /\ pc' = "done"
    /\ UNCHANGED <<source, state, buffer_vec, buffer_type, line_count,
                   since_last_line, i, exit_code, errors, mainvars>>

Next ==
    \/ StepComment
    \/ StepSoloDot
    \/ StepNumberWithDot
    \/ StepNumber
    \/ StepInString
    \/ StepNext
    \/ StepMaybeTwo
    \/ StepIdentifierOrKeyword
    \/ PushEof

Spec == Init /\ [][Next]_vars

-----------------------------------------------------------------------------
(* The entry point: main, Lox::run_prompt, Lox::run_file and Lox::run *)

\* the name the program was started under, which env::args() yields first
Program == "jlox"

\* the paths a user hands to the program
Paths == {"a.lox", "b.lox"}

\* the most arguments a user hands to the program
MaxArgs == 2

\* the texts a script file or a line typed at the prompt holds: between them
\* they lead the scanner through every arm of its match
Texts ==
    { <<>>,
      <<"1">>,
      <<"a">>,
      <<".", "1">>,
      <<"\"", "a">>,
      <<"/", "/", "a">>,
      <<"1", ".", ".">> }

\* the failures of fs::read_to_string: no such file, or bytes that are not
\* UTF-8
NotFound == <<"NotFound">>
InvalidData == <<"InvalidData">>

\* the command lines: the program's name followed by the user's arguments
CommandLines ==
    {<<Program>> \o rest : rest \in UNION {[1..n -> Paths] : n \in 0..MaxArgs}}

\* the file systems: a path holds a text, holds bytes that are not UTF-8, or
\* does not exist; this goes for the program's own name too, which is
\* whatever the caller of the process passed first
FileSystems == [{Program} \cup Paths -> Texts \cup {NotFound, InvalidData}]

\* the process starts in main; nothing is scanned yet
InitMain ==
    /\ args \in CommandLines
    /\ fs \in FileSystems
    /\ mode = "main"
    /\ opened = None
    /\ source = <<>>
    /\ tokens = <<>>
    /\ state = "Next"
    /\ buffer_vec = <<>>
    /\ buffer_type = "Print"
    /\ line_count = 1
    /\ since_last_line = 0
    /\ i = 0
    /\ pc = "main"
    /\ exit_code = -1
    /\ errors = <<>>

\* Lox::run: Scanner::new([code, "\n"].concat()) followed by scan_tokens,
\* whose locals start as in Init
run(code) ==
    /\ source' = Run(code)
    /\ tokens' = <<>>
    /\ state' = "Next"
    /\ buffer_vec' = <<>>
    /\ buffer_type' = "Print"
    /\ line_count' = 1
    /\ since_last_line' = 0
    /\ i' = 0
    /\ pc' = "scan"
    /\ UNCHANGED <<exit_code, errors>>

\* a panic of the main thread (unwrap of an Err or of a None): the process
\* ends with status 101
Panic ==
    /\ pc' = "exit"
    /\ exit_code' = 101
    /\ UNCHANGED <<source, tokens, state, buffer_vec, buffer_type, line_count,
                   since_last_line, i, errors>>

\* the path of the arm `2 =>`: Path::new(&args[0])
FileArgument == args[1]

\* main: match args.len()
main ==
    /\ pc = "main"
    /\ IF Len(args) = 1
       THEN /\ mode' = "prompt"
            /\ pc' = "run_prompt"
            /\ UNCHANGED <<opened, exit_code>>
       ELSE IF Len(args) = 2
       THEN /\ mode' = "file"
            /\ opened' = Some(FileArgument)
            /\ pc' = "run_file"
            /\ UNCHANGED exit_code
       ELSE /\ mode' = "usage"
            /\ pc' = "exit"
            /\ exit_code' = 64
            /\ UNCHANGED opened
    /\ UNCHANGED <<source, tokens, state, buffer_vec, buffer_type, line_count,
                   since_last_line, i, errors, args, fs>>

\* Lox::run_file up to its call of run: fs::read_to_string(file)?, whose Err
\* main unwraps
run_file ==
    /\ pc = "run_file"
    /\ IF fs[opened[1]] \in {NotFound, InvalidData}
       THEN Panic
       ELSE run(fs[opened[1]])
    /\ UNCHANGED mainvars

\* one turn of the loop of Lox::run_prompt: read_line, then the first line of
\* what was read; at the end of input there is no first line and unwrap
\* panics, an empty line is skipped, any other line is run
run_prompt ==
    /\ pc = "run_prompt"
    /\ \E eof \in BOOLEAN : \E line \in Texts :
          IF eof
          THEN Panic
          ELSE IF Len(line) = 0
          THEN UNCHANGED <<source, tokens, state, buffer_vec, buffer_type,
                           line_count, since_last_line, i, pc, exit_code, errors>>
          ELSE run(line)
    /\ UNCHANGED mainvars

\* run has printed the tokens and returns into the loop of run_prompt
run_prompt_again ==
    /\ pc = "done"
    /\ mode = "prompt"
    /\ pc' = "run_prompt"
    /\ UNCHANGED <<source, tokens, state, buffer_vec, buffer_type, line_count,
                   since_last_line, i, exit_code, errors, mainvars>>

\* run_file returns Ok(0) and main ends with process::exit(0)
main_exit ==
    /\ pc = "done"
    /\ mode = "file"
    /\ pc' = "exit"
    /\ exit_code' = 0
    /\ UNCHANGED <<source, tokens, state, buffer_vec, buffer_type, line_count,
                   since_last_line, i, errors, mainvars>>

NextMain ==
    \/ main
    \/ run_file
    \/ run_prompt
    \/ run_prompt_again
    \/ main_exit
    \/ Next

SpecMain == InitMain /\ [][NextMain]_vars

-----------------------------------------------------------------------------
(* Vocabulary of the properties *)

TypeOK ==
    /\ state \in {"Comment", "Next", "MaybeTwo", "IdentifierOrKeyword", "InString",
                  "Number", "NumberWithDot", "SoloDot"}
    /\ pc \in {"main", "run_prompt", "run_file", "scan", "done", "exit"}
    /\ i \in 0..Len(source)
    /\ line_count >= 1
    /\ since_last_line \in 0..Len(source)
    /\ exit_code \in {-1, 0, 1, 64, 101}

\* the positions of the tokens emitted so far whose type is in T
TokensOfType(T) == {k \in DOMAIN tokens : tokens[k].ttype \in T}

\* how many Slash tokens have been emitted so far
SlashCount == Cardinality(TokensOfType({"Slash"}))

\* how many newline characters the source holds
NewlineCount == Cardinality({k \in DOMAIN source : source[k] = "\n"})

\* the loop is about to read a character
Reading == pc = "scan" /\ i < Len(source)

\* the type and literal of every token emitted so far, in order
Kinds == [k \in DOMAIN tokens |-> <<tokens[k].ttype, tokens[k].literal>>]

-----------------------------------------------------------------------------
(* C1 *)

VarDecl == <<"v", "a", "r", " ", "x", " ", "=", " ", "1", ".", "5", ";">>

\* C1: scanning `var x = 1.5;` followed by a newline yields exactly
\* [Var, Identifier("x"), Equal, Number("1.5"), Semicolon, Eof], with nothing
\* between Semicolon and Eof.
C1_RoundTrip ==
    (pc = "done" /\ source = Run(VarDecl)) =>
        Kinds = << <<"Var", None>>,
                   <<"Identifier", Some(<<"x">>)>>,
                   <<"Equal", None>>,
                   <<"Number", Some(<<"1", ".", "5">>)>>,
                   <<"Semicolon", None>>,
                   <<"Eof", None>> >>

-----------------------------------------------------------------------------
(* C2 *)

\* C2: a two-character operator spelling (`!=`, `==`, `>=`, `<=`) at the start
\* of the source, followed by any character, gives exactly one token at the
\* columns of the spelling, the combined token, and never an additional
\* single Bang, Equal, Greater or Less token for it.
C2_OneCombinedToken ==
    (/\ pc = "done"
     /\ Len(source) >= 3
     /\ source[1] \in {"!", "=", ">", "<"}
     /\ source[2] = "=") =>
        /\ {k \in DOMAIN tokens : /\ tokens[k].ttype # "Eof"
                                  /\ tokens[k].line = 1
                                  /\ tokens[k].offset \in {0, 1}} = {1}
        /\ tokens[1].ttype = combined[first_two_char[source[1]]]

-----------------------------------------------------------------------------
(* C3 *)

\* numeric literals of the form digit+ ('.' digit+)?
NumLits == { <<"1">>, <<"1", "1">>, <<"1", ".", "1">> }

\* the characters that end a number: whitespace, single-character punctuation
\* other than the dot, operator start characters
Terminators == {" ", "\n", ";", "=", "!", ">", "<", "/"}

\* C3: a numeric literal followed by a terminator and the trailing newline
\* gives exactly one Number token, whose literal is the literal's text.
C3_OneNumberToken ==
    \A lit \in NumLits : \A t \in Terminators :
        (pc = "done" /\ source = Run(lit \o <<t>>)) =>
            /\ Cardinality(TokensOfType({"Number"})) = 1
            /\ \A k \in TokensOfType({"Number"}) : tokens[k].literal = Some(lit)

-----------------------------------------------------------------------------
(* C4 *)

\* C4: when the source starts with an identifier, a `.` and a digit, the `.`
\* starts a fractional number: a Number token whose literal begins with `.`
\* is emitted and no Dot token is emitted at the column of that `.`.
C4_DotAfterIdentifierStartsNumber ==
    (/\ pc = "done"
     /\ Len(source) >= 4
     /\ source[1] = "a"
     /\ source[2] = "."
     /\ is_numeric(source[3])) =>
        /\ \A k \in TokensOfType({"Dot"}) :
              ~(tokens[k].line = 1 /\ tokens[k].offset = 1)
        /\ \E k \in TokensOfType({"Number"}) :
              Head(tokens[k].literal[1]) = "."

-----------------------------------------------------------------------------
(* C5 *)

\* C5: every newline the loop reads, in every scanner state, adds one to the
\* line counter and moves the line start to the next character; so the Eof
\* token's line is 1 plus the number of newlines of the source.
C5_LineCounting ==
    [][ /\ (Reading /\ c = "\n" /\ pc' = "scan") =>
              (line_count' = line_count + 1 /\ since_last_line' = i + 1)
        /\ (pc = "scan" /\ pc' = "done") =>
              tokens'[Len(tokens')].line = 1 + NewlineCount
      ]_vars

-----------------------------------------------------------------------------
(* C6 *)

\* C6: when scan_tokens has returned, the tokens hold exactly one Eof token,
\* it is the last one, its line is the final line counter and its column 0.
C6_ExactlyOneEof ==
    pc = "done" =>
        /\ Len(tokens) >= 1
        /\ tokens[Len(tokens)] = Token("Eof", None, line_count, 0)
        /\ TokensOfType({"Eof"}) = {Len(tokens)}

\* a scan that ended inside a string literal, on a later line, after tokens
C6_Witness ==
    /\ pc = "done"
    /\ state = "InString"
    /\ line_count > 1
    /\ Len(tokens) > 1

-----------------------------------------------------------------------------
(* C7 *)

DoubleDot == <<"1", ".", ".", "2">>

\* C7: a `.` read in state NumberWithDot is reported and ends the process with
\* a non-zero status at that character: no token is pushed for it or for any
\* later character, no Eof is appended, scan_tokens never returns; `1..2`
\* ends so at its second dot, before any token.
C7_FatalDoubleDot ==
    /\ [][ /\ (AtState("NumberWithDot") /\ c = ".") =>
                 /\ pc' = "exit"
                 /\ exit_code' > 0
                 /\ errors' = Append(errors,
                        <<line_count, i - since_last_line, "Did not expect '.'">>)
                 /\ tokens' = tokens
                 /\ i' = i
           /\ pc = "exit" => (pc' = "exit" /\ tokens' = tokens)
         ]_vars
    /\ [](pc = "exit" => TokensOfType({"Eof"}) = {})
    /\ [](source = Run(DoubleDot) => (i <= 2 /\ tokens = <<>> /\ pc # "done"))

\* the scan of `1..2` stopped at the second dot
C7_Witness ==
    /\ source = Run(DoubleDot)
    /\ pc = "exit"
    /\ exit_code = 1
    /\ i = 2
    /\ Len(errors) = 1

-----------------------------------------------------------------------------
(* C8 *)

\* digits, one dot, digits
IsFraction(buf) ==
    /\ Cardinality({k \in DOMAIN buf : buf[k] = "."}) = 1
    /\ \A k \in DOMAIN buf : buf[k] = "." \/ is_numeric(buf[k])

\* C8: whenever the scan aborts at a `.`, the characters read since the last
\* emitted token or whitespace, those right before that `.`, are a fractional
\* number in progress (digits, one dot, digits) that no token was emitted
\* for; in particular `1.5).` does not abort.
C8_FatalOnlyInsideOneLiteral ==
    /\ pc = "exit" =>
          /\ Len(buffer_vec) <= i
          /\ buffer_vec = SubSeq(source, i - Len(buffer_vec) + 1, i)
          /\ IsFraction(buffer_vec)
          /\ \A k \in TokensOfType({"Number"}) :
                ~(/\ tokens[k].literal = Some(buffer_vec)
                  /\ tokens[k].line = line_count
                  /\ tokens[k].offset >= i - since_last_line - Len(buffer_vec))
    /\ source = Run(<<"1", ".", "5", ")", ".">>) => pc # "exit"

-----------------------------------------------------------------------------
(* C9 *)

\* the character being read is operator text: it is read outside a string
\* literal and outside a comment
ReadsOperator == Reading /\ state \notin {"InString", "Comment"}

\* the character being read follows a `/` that is still pending
AfterSlash == AtState("MaybeTwo") /\ buffer_type = "Slash"

\* C9: a `/` (read outside a string literal) is held back and emits nothing
\* itself; when a second `/` follows, neither it nor any character up to the
\* next newline emits a token and that newline brings the scanner back to
\* Next; when another character follows, exactly one Slash token is emitted,
\* at the column of the `/`; no other step emits a Slash token.
C9_CommentElided ==
    [][ /\ (ReadsOperator /\ c = "/" /\ ~AfterSlash) =>
              (state' = "MaybeTwo" /\ buffer_type' = "Slash" /\ SlashCount' = SlashCount)
        /\ (AfterSlash /\ c = "/") =>
              (tokens' = tokens /\ state' = "Comment")
        /\ (AtState("Comment") /\ c # "\n") =>
              (tokens' = tokens /\ state' = "Comment")
        /\ (AtState("Comment") /\ c = "\n") =>
              (tokens' = tokens /\ state' = "Next")
        /\ (AfterSlash /\ c # "/") =>
              /\ SlashCount' = SlashCount + 1
              /\ Len(tokens') > Len(tokens)
              /\ tokens'[Len(tokens) + 1] =
                    Token("Slash", None, line_count, i - since_last_line - 1)
              /\ ~(state' = "MaybeTwo" /\ buffer_type' = "Slash")
        /\ (Reading /\ ~AfterSlash) => SlashCount' = SlashCount
      ]_vars

\* a comment is being skipped after a Slash token was emitted earlier
C9_Witness ==
    /\ AtState("Comment")
    /\ SlashCount = 1
    /\ i >= 2
    /\ source[i] = "/"
    /\ source[i - 1] = "/"

-----------------------------------------------------------------------------
(* C10 *)

\* the index, from 1, of the quote that opened the string literal in progress
OpeningQuote == i - Len(buffer_vec) + 1

\* C10: a `"` read in state Next opens a string literal; while it is open the
\* buffer is the source text from the opening quote on, whatever the
\* characters are, and nothing is emitted; the next `"` emits exactly one
\* String token, whose literal is the text from the opening quote through the
\* closing quote, and brings the scanner back to Next.
C10_StringClosedByNextQuote ==
    [][ /\ (AtState("Next") /\ c = "\"") =>
              (state' = "InString" /\ tokens' = tokens)
        /\ AtState("InString") =>
              /\ OpeningQuote >= 1
              /\ source[OpeningQuote] = "\""
              /\ buffer_vec = SubSeq(source, OpeningQuote, i)
              /\ \A k \in (OpeningQuote + 1)..i : source[k] # "\""
              /\ IF c = "\""
                 THEN /\ Len(tokens') = Len(tokens) + 1
                      /\ SubSeq(tokens', 1, Len(tokens)) = tokens
                      /\ tokens'[Len(tokens')].ttype = "String"
                      /\ tokens'[Len(tokens')].literal =
                            Some(SubSeq(source, OpeningQuote, i + 1))
                      /\ state' = "Next"
                 ELSE tokens' = tokens /\ state' = "InString"
      ]_vars

\* a String token whose literal holds a newline between other characters has
\* been emitted and the scanner is back in Next
C10_Witness ==
    /\ state = "Next"
    /\ \E k \in TokensOfType({"String"}) :
          LET lit == tokens[k].literal[1] IN
             /\ Len(lit) >= 4
             /\ \E m \in 2..(Len(lit) - 1) : lit[m] = "\n"
             /\ \E m \in 2..(Len(lit) - 1) : lit[m] \in {".", "=", "1", "/"}

-----------------------------------------------------------------------------
(* C11 *)

\* the states that accumulate a number
NumberStates == {"Number", "NumberWithDot"}

\* C11 as stated: when scan_tokens has returned (the source ends with the
\* newline of Lox::run), the scanner state is Next: nothing is in progress.
C11_NothingInProgress ==
    pc = "done" => state = "Next"

\* C11 amended: when scan_tokens has returned, the state is Next, or InString
\* with the buffer holding a string literal that was opened and has no
\* closing quote up to the end of the source; a number or an identifier in
\* progress is always emitted, with the accumulated text, by the step that
\* leaves its state.
C11_NothingInProgressButOpenString ==
    /\ [](pc = "done" =>
            \/ state = "Next"
            \/ /\ state = "InString"
               /\ OpeningQuote >= 1
               /\ source[OpeningQuote] = "\""
               /\ buffer_vec = SubSeq(source, OpeningQuote, Len(source))
               /\ \A k \in (OpeningQuote + 1)..Len(source) : source[k] # "\"")
    /\ [][ /\ (Reading /\ pc' = "scan" /\ state \in NumberStates
                  /\ state' \notin NumberStates) =>
                 /\ Len(tokens') > Len(tokens)
                 /\ tokens'[Len(tokens) + 1].ttype = "Number"
                 /\ tokens'[Len(tokens) + 1].literal = Some(buffer_vec)
           /\ (AtState("IdentifierOrKeyword") /\ state' # "IdentifierOrKeyword") =>
                 /\ Len(tokens') > Len(tokens)
                 /\ tokens'[Len(tokens) + 1].ttype \in
                       {"Identifier"} \cup {keywords[w] : w \in DOMAIN keywords}
                 /\ tokens'[Len(tokens) + 1].ttype = "Identifier" =>
                       tokens'[Len(tokens) + 1].literal = Some(buffer_vec)
         ]_vars

\* the scan returned after the final newline ended a word or a number that
\* was in progress
C11_Witness ==
    /\ pc = "done"
    /\ state = "Next"
    /\ Len(source) >= 2
    /\ source[Len(source) - 1] \in {"a", "1"}
    /\ \E k \in TokensOfType({"Identifier", "Number"}) :
          tokens[k].literal[1][Len(tokens[k].literal[1])] = source[Len(source) - 1]

-----------------------------------------------------------------------------
(* C12 *)

\* C12: every token emitted so far whose type is not Identifier, String or
\* Number (punctuation, operators, keywords, Eof) has no literal.
C12_OnlyLiteralKindsCarryLiteral ==
    \A k \in DOMAIN tokens :
        tokens[k].ttype \notin {"Identifier", "String", "Number"} =>
            tokens[k].literal = None

\* a finished scan that emitted a keyword, an operator and a punctuation token
C12_Witness ==
    /\ pc = "done"
    /\ TokensOfType({"Var"}) # {}
    /\ TokensOfType({"Equal"}) # {}
    /\ TokensOfType({"Semicolon"}) # {}

-----------------------------------------------------------------------------
(* C13 *)

\* the character being read ends an identifier: whitespace, single-character
\* punctuation, an operator start character or a quote
FlushesWord ==
    \/ is_whitespace(c)
    \/ c \in DOMAIN single_char
    \/ c \in DOMAIN first_two_char
    \/ c = "\""

\* C13: the buffer of IdentifierOrKeyword is the source text accumulated since
\* the identifier began; when one of the four kinds of terminating character
\* is read, the token pushed for it is the keyword token without literal if
\* the buffer is, to the letter, one of the 16 keyword spellings, and
\* otherwise an Identifier token whose literal is the buffer.
C13_KeywordIffSpelling ==
    [][ (AtState("IdentifierOrKeyword") /\ FlushesWord) =>
           /\ Cardinality(DOMAIN keywords) = 16
           /\ Len(buffer_vec) <= i
           /\ buffer_vec = SubSeq(source, i - Len(buffer_vec) + 1, i)
           /\ Len(tokens') > Len(tokens)
           /\ LET t == tokens'[Len(tokens) + 1] IN
                 IF buffer_vec \in DOMAIN keywords
                 THEN t.ttype = keywords[buffer_vec] /\ t.literal = None
                 ELSE t.ttype = "Identifier" /\ t.literal = Some(buffer_vec)
      ]_vars

\* `or` was emitted as the keyword Or and `Or` as an identifier
C13_Witness ==
    /\ \E k \in TokensOfType({"Or"}) : tokens[k].literal = None
    /\ \E k \in TokensOfType({"Identifier"}) : tokens[k].literal = Some(<<"O", "r">>)

-----------------------------------------------------------------------------
(* C14 *)

\* C14: a source of blanks, tabs and newlines only gives exactly one token,
\* Eof.
C14_WhitespaceOnly ==
    (pc = "done" /\ \A k \in DOMAIN source : source[k] \in {" ", "\t", "\n"}) =>
        (Len(tokens) = 1 /\ tokens[1].ttype = "Eof")

\* a finished scan of blanks, tabs and newlines
C14_Witness ==
    /\ pc = "done"
    /\ \A k \in DOMAIN source : source[k] \in {" ", "\t", "\n"}
    /\ \A ch \in {" ", "\t", "\n"} : \E k \in DOMAIN source : source[k] = ch
    /\ Len(source) >= 4
    /\ Len(tokens) = 1

-----------------------------------------------------------------------------
(* Positions in the source text *)

\* the line, counted from 1, of the character at index p (from 0)
LineOf(p) == 1 + Cardinality({k \in 1..p : source[k] = "\n"})

\* the index (from 0) of the first character of the line of the character at
\* index p (from 0)
LineStartOf(p) ==
    LET before == {k \in 1..p : source[k] = "\n"} IN
       IF before = {} THEN 0
       ELSE CHOOSE k \in before : \A m \in before : m <= k

\* the text a token was made from: its literal, or the fixed spelling of its
\* type
Spelling(t) ==
    IF t.literal # None THEN t.literal[1]
    ELSE IF \E ch \in DOMAIN single_char : single_char[ch] = t.ttype
    THEN <<CHOOSE ch \in DOMAIN single_char : single_char[ch] = t.ttype>>
    ELSE IF \E ch \in DOMAIN first_two_char : first_two_char[ch] = t.ttype
    THEN <<CHOOSE ch \in DOMAIN first_two_char : first_two_char[ch] = t.ttype>>
    ELSE IF \E o \in DOMAIN combined : combined[o] = t.ttype
    THEN LET op == CHOOSE o \in DOMAIN combined : combined[o] = t.ttype IN
            <<(CHOOSE ch \in DOMAIN first_two_char : first_two_char[ch] = op), "=">>
    ELSE IF \E w \in DOMAIN keywords : keywords[w] = t.ttype
    THEN CHOOSE w \in DOMAIN keywords : keywords[w] = t.ttype
    ELSE <<>>

\* the source has the text of token t ending at the character at index p
\* (from 0)
TextEndsAt(t, p) ==
    LET text == Spelling(t) IN
       /\ p + 1 <= Len(source)
       /\ Len(text) <= p + 1
       /\ SubSeq(source, p + 2 - Len(text), p + 1) = text

-----------------------------------------------------------------------------
(* C15 *)

\* C15: the tokens pushed when a newline is read are reported on the line of
\* the source that the newline ends, at the column, counted from 0 at the
\* start of that line, of the character before the newline; for a, newline,
\* b, newline the token for `a` has line 1 column 0 and the token for `b`
\* line 2 column 0.
C15_LineOfTokenEndedByNewline ==
    /\ [][ (Reading /\ c = "\n" /\ pc' = "scan") =>
              \A k \in (Len(tokens) + 1)..Len(tokens') :
                 /\ tokens'[k].line = LineOf(i)
                 /\ tokens'[k].offset = (i - 1) - LineStartOf(i)
         ]_vars
    /\ []((pc = "done" /\ source = Run(<<"a", "\n", "b">>)) =>
             tokens = << Token("Identifier", Some(<<"a">>), 1, 0),
                         Token("Identifier", Some(<<"b">>), 2, 0),
                         Token("Eof", None, 3, 0) >>)

-----------------------------------------------------------------------------
(* C16 *)

\* C16: every token emitted so far, Eof aside, is reported at the position of
\* its own last character: the source text that ends at the token's line and
\* column (the column counted from 0 at the start of that line) is the text
\* of the token.
C16_ColumnOfOwnLastCharacter ==
    \A k \in DOMAIN tokens :
        tokens[k].ttype # "Eof" =>
            \E p \in 0..(Len(source) - 1) :
                /\ LineOf(p) = tokens[k].line
                /\ p - LineStartOf(p) = tokens[k].offset
                /\ TextEndsAt(tokens[k], p)

-----------------------------------------------------------------------------
(* C17 *)

\* token t is reported at or before the position of token u
NotAfter(t, u) ==
    \/ t.line < u.line
    \/ t.line = u.line /\ t.offset <= u.offset

\* C17: tokens are only ever appended, and the (line, column) pairs of the
\* tokens emitted so far, Eof aside, never decrease along the sequence.
C17_SourceOrder ==
    /\ [](\A j, k \in DOMAIN tokens :
             (j < k /\ tokens[j].ttype # "Eof" /\ tokens[k].ttype # "Eof") =>
                 NotAfter(tokens[j], tokens[k]))
    /\ [][ Len(tokens') >= Len(tokens)
           /\ SubSeq(tokens', 1, Len(tokens)) = tokens ]_vars

\* a finished scan with tokens on two lines and two tokens on one line
C17_Witness ==
    /\ pc = "done"
    /\ \E j, k \in DOMAIN tokens :
          j < k /\ tokens[j].line = 1 /\ tokens[k].line = 2 /\ tokens[k].ttype # "Eof"
    /\ \E j, k \in DOMAIN tokens :
          j < k /\ tokens[j].line = tokens[k].line /\ tokens[j].offset < tokens[k].offset

-----------------------------------------------------------------------------
(* C18 *)

\* the state in which ScannerState::Next leaves the scanner after reading ch
StateAfterNext(ch) ==
    IF ch = "." THEN "SoloDot"
    ELSE IF ch \in DOMAIN single_char THEN "Next"
    ELSE IF ch \in DOMAIN first_two_char THEN "MaybeTwo"
    ELSE IF is_whitespace(ch) THEN "Next"
    ELSE IF ch = "\"" THEN "InString"
    ELSE IF is_numeric(ch) THEN "Number"
    ELSE "IdentifierOrKeyword"

\* C18: when the character read after a lone `.` is no digit, exactly one Dot
\* token is pushed for the `.`, at its column, and the character leaves the
\* scanner in the state in which Next would leave it: after single-character
\* punctuation that state is Next, so that no further Dot is pushed later.
C18_DotThenAsNext ==
    [][ (AtState("SoloDot") /\ ~is_numeric(c)) =>
           /\ Len(tokens') > Len(tokens)
           /\ tokens'[Len(tokens) + 1] =
                 Token("Dot", None, line_count, i - since_last_line - 1)
           /\ \A k \in (Len(tokens) + 2)..Len(tokens') : tokens'[k].ttype # "Dot"
           /\ state' = StateAfterNext(c)
      ]_vars

-----------------------------------------------------------------------------
(* C19 *)

\* text occurs in the source as a run of adjacent characters
IsSubstring(text) ==
    \E first \in 1..(Len(source) + 1) :
        /\ first + Len(text) - 1 <= Len(source)
        /\ SubSeq(source, first, first + Len(text) - 1) = text

\* C19: the literal of every Identifier, String and Number token emitted so
\* far is a run of adjacent characters of the source.
C19_LiteralIsSubstring ==
    \A k \in TokensOfType({"Identifier", "String", "Number"}) :
        IsSubstring(tokens[k].literal[1])

-----------------------------------------------------------------------------
(* C20 *)

\* the character being read belongs to no class that the accumulating state
\* handles: no digit, whitespace, single-character punctuation or operator
\* start character, and no quote in IdentifierOrKeyword, which handles it
UnclassifiedChar ==
    /\ ~is_numeric(c)
    /\ ~is_whitespace(c)
    /\ c \notin DOMAIN single_char
    /\ c \notin DOMAIN first_two_char
    /\ ~(state = "IdentifierOrKeyword" /\ c = "\"")

\* C20: in IdentifierOrKeyword, Number and NumberWithDot an unclassified
\* character is appended to the buffer, raising no error and pushing no
\* token, so that it is part of the literal emitted later.
C20_UnclassifiedCharIsBuffered ==
    [][ (Reading /\ state \in {"IdentifierOrKeyword", "Number", "NumberWithDot"}
            /\ UnclassifiedChar) =>
           /\ buffer_vec' = Append(buffer_vec, c)
           /\ state' = state
           /\ tokens' = tokens
           /\ pc' = "scan"
           /\ errors' = errors
      ]_vars

-----------------------------------------------------------------------------
(* C21 *)

\* the arguments the user gave, without the program's name
UserArgs == SubSeq(args, 2, Len(args))

\* C21: once main has matched on the argument count, with no argument the
\* interactive prompt runs, with exactly one argument the file opened is the
\* one at the path given by that argument, and with any other count the
\* process has exited with status 64
C21_ChoosesByArgumentCount ==
    pc # "main" =>
        /\ Len(UserArgs) = 0 => mode = "prompt"
        /\ Len(UserArgs) = 1 => (mode = "file" /\ opened = Some(UserArgs[1]))
        /\ Len(UserArgs) > 1 => (mode = "usage" /\ pc = "exit" /\ exit_code = 64)

-----------------------------------------------------------------------------
(* C22 *)

\* the arm of MaybeTwo that prints "Somehow a not possible two character
\* token..." is about to be taken: '=' follows a pending type that is neither
\* Slash nor one of the four that combine with it
ImpossibleTwo ==
    /\ AtState("MaybeTwo")
    /\ c = "="
    /\ buffer_type # "Slash"
    /\ buffer_type \notin DOMAIN combined

\* C22: whenever the scanner is in state MaybeTwo the pending token type is
\* Bang, Equal, Greater, Less or Slash, so the arm that reports an impossible
\* two-character token is never taken and the process never exits without a
\* reported error
C22_PendingIsFirstOfTwo ==
    /\ state = "MaybeTwo" =>
          buffer_type \in {"Bang", "Equal", "Greater", "Less", "Slash"}
    /\ ~ImpossibleTwo
    /\ pc = "exit" => errors # <<>>

\* each of the five pending types is met in MaybeTwo with '=' as the next
\* character: here Less
C22_Witness ==
    /\ AtState("MaybeTwo")
    /\ c = "="
    /\ buffer_type = "Less"

-----------------------------------------------------------------------------
(* C23 *)

\* the states whose arms emit a token at column i - since_last_line - 1
EmitsBehind ==
    {"SoloDot", "NumberWithDot", "Number", "MaybeTwo", "IdentifierOrKeyword"}

\* the loop reads the first character of a line
AtLineStart == Reading /\ (i = 0 \/ source[i] = "\n")

\* C23: the column subtraction never goes below zero: while a character is
\* read i is at least since_last_line, and strictly greater in every state
\* whose arm emits at column i - since_last_line - 1; at the first character
\* of every line the state is Next or InString; and so every column emitted
\* or reported is a natural number
C23_ColumnNeverUnderflows ==
    /\ Reading => since_last_line <= i
    /\ (Reading /\ state \in EmitsBehind) => since_last_line < i
    /\ AtLineStart => state \in {"Next", "InString"}
    /\ \A k \in DOMAIN tokens : tokens[k].offset >= 0
    /\ \A k \in DOMAIN errors : errors[k][2] >= 0

\* a token emitted at column i - since_last_line - 1 = 0 on a line after the
\* first: the subtraction at its tightest
C23_Witness ==
    \E k \in DOMAIN tokens :
        /\ tokens[k].line >= 2
        /\ tokens[k].offset = 0
        /\ tokens[k].ttype \in {"Identifier", "Number", "Dot", "Bang", "Slash"}

====
